---- MODULE Spec2Model ----
(***************************************************************************)
(* Model of the PropertyEdge valuation engine (src/propertyedge_core.py),   *)
(* its comp selection (src/ppd_sqlite.py) and its persistence              *)
(* (src/storage.py).                                                       *)
(*                                                                         *)
(* Representation of Python values:                                        *)
(*   - Optional[T]: Null is the empty tuple, Some(x) the one-element tuple *)
(*     <<x>>; Truthy follows Python truthiness (None, 0, 0.0 and "" are    *)
(*     falsy).                                                             *)
(*   - floats that hold comp statistics are kept exactly as integers in    *)
(*     units of 1/4 (the only fractions quantile/median produce for        *)
(*     q in {0.25, 0.5, 0.75} on integer prices).                          *)
(*   - floor_area_sqm is kept in hundredths of a square metre, size_adj in *)
(*     thousandths; the floor areas drawn are those whose square root is   *)
(*     exact in thousandths or is clamped, so int(q * size_adj) is exact.  *)
(*   - text (tenure, EPC, postcodes) is a tuple of one-character strings.  *)
(*   - a sale date is its day number; a value stored as JSON is a record   *)
(*     of its Python type and payload.                                     *)
(***************************************************************************)
EXTENDS Integers, Sequences, FiniteSets, TLC

VARIABLES pc, facts, comps, comps_used, fair, scored, offer, valuation, md_report, error
\* the price-paid database and the arguments of a find_comps_sqlite call
VARIABLES ppd_sales, request
\* the analyses database, the identifiers save_analysis returned with what was
\* passed, and the last get_analysis call (its argument, the number of
\* save_analysis calls that preceded it, its result)
VARIABLES analyses, sqlite_sequence, saved, got
\* the arguments and the results of a quantile/median call
VARIABLES stat_args, stat

compsVars == <<ppd_sales, request>>
storageVars == <<analyses, sqlite_sequence, saved, got>>
statVars == <<stat_args, stat>>
vars == <<pc, facts, comps, comps_used, fair, scored, offer, valuation, md_report, error,
          compsVars, storageVars, statVars>>

\* ---------------------------------------------------------------- bounds
MaxComps == 3
MaxCompsUsed == 12

\* ------------------------------------------------------- Python values
Null == <<>>
Some(x) == <<x>>
Val(o) == o[1]

TruthyNum(o) == o # Null /\ Val(o) # 0
TruthyText(o) == o # Null /\ Val(o) # <<>>

Max(a, b) == IF a >= b THEN a ELSE b
Min(a, b) == IF a <= b THEN a ELSE b
Abs(a) == IF a < 0 THEN -a ELSE a

\* ------------------------------------------------------------- text
UpperLetters == <<"A","B","C","D","E","F","G","H","I","J","K","L","M","N","O","P","Q","R","S","T","U","V","W","X","Y","Z">>
LowerLetters == <<"a","b","c","d","e","f","g","h","i","j","k","l","m","n","o","p","q","r","s","t","u","v","w","x","y","z">>

LowerChar(c) ==
    IF \E i \in 1..26 : UpperLetters[i] = c
    THEN LowerLetters[CHOOSE i \in 1..26 : UpperLetters[i] = c]
    ELSE c
UpperChar(c) ==
    IF \E i \in 1..26 : LowerLetters[i] = c
    THEN UpperLetters[CHOOSE i \in 1..26 : LowerLetters[i] = c]
    ELSE c

Lower(s) == [i \in 1..Len(s) |-> LowerChar(s[i])]
Upper(s) == [i \in 1..Len(s) |-> UpperChar(s[i])]
StartsWith(s, p) == Len(s) >= Len(p) /\ SubSeq(s, 1, Len(p)) = p

RECURSIVE LStrip(_)
LStrip(s) == IF s # <<>> /\ Head(s) = " " THEN LStrip(Tail(s)) ELSE s
RECURSIVE RStrip(_)
RStrip(s) == IF s # <<>> /\ s[Len(s)] = " " THEN RStrip(SubSeq(s, 1, Len(s) - 1)) ELSE s
Strip(s) == RStrip(LStrip(s))

\* ------------------------------------------------- statistics utilities
RECURSIVE Insert(_, _)
Insert(x, s) ==
    IF s = <<>> THEN <<x>>
    ELSE IF x <= Head(s) THEN <<x>> \o s
    ELSE <<Head(s)>> \o Insert(x, Tail(s))
RECURSIVE Sorted(_)
Sorted(s) == IF s = <<>> THEN <<>> ELSE Insert(Head(s), Sorted(Tail(s)))

\* Unit of the comp statistics: a value v is held as Quarter * v.
Quarter == 4

\* median(vals), in quarters
Median(vals) ==
    IF vals = <<>> THEN Null
    ELSE LET s == Sorted(vals)
             n == Len(s)
         IN  IF n % 2 = 1
             THEN Some(Quarter * s[(n \div 2) + 1])
             ELSE Some((Quarter * (s[n \div 2] + s[(n \div 2) + 1])) \div 2)

\* the order statistic at the floor of the rank, with no interpolation
QuantileLower(vals, qn) ==
    IF vals = <<>> THEN Null
    ELSE Some(Quarter * Sorted(vals)[(((Len(vals) - 1) * qn) \div Quarter) + 1])

\* quantile(vals, q) for q = qn / Quarter, in quarters
Quantile(vals, qn) ==
    IF vals = <<>> THEN Null
    ELSE LET s == Sorted(vals)
         IN  IF Len(s) = 1 THEN Some(Quarter * s[1])
             ELSE LET posQ == (Len(s) - 1) * qn          \* pos, in quarters
                      lo == posQ \div Quarter             \* 0-based
                      hi == IF posQ % Quarter = 0 THEN lo ELSE lo + 1
                  IN  IF lo = hi THEN Some(Quarter * s[lo + 1])
                      ELSE Some(Quarter * s[lo + 1] + (s[hi + 1] - s[lo + 1]) * (posQ - Quarter * lo))

\* pct(a, b): the exact ratio (a - b) * 100 / b, kept as numerator and denominator
Pct(a, b) ==
    IF a = Null \/ b = Null \/ (b # Null /\ Val(b) = 0) THEN Null
    ELSE Some([num |-> (Val(a) - Val(b)) * 100, den |-> Val(b)])

\* Python round(): round half to even, of the ratio x / base for x >= 0
RoundHalfEven(x, base) ==
    LET q == x \div base
        r == x % base
    IN  IF 2 * r < base THEN q
        ELSE IF 2 * r > base THEN q + 1
        ELSE IF q % 2 = 0 THEN q ELSE q + 1

RoundToNearest(x, base) == base * RoundHalfEven(x, base)

\* ------------------------------------------------- fair-value estimator
NoCompsNote == "No sold comps found (PPD SQLite not loaded or no matches in postcode sector/time window)."
InsufficientNote == "Insufficient comp distribution to compute quartiles."
QuartilesNote == "Comp quartiles (unadjusted)"
SizeAdjNote == "Applied light size adjustment factor"

\* Units: floor areas in 1/Centi sqm, size_adj in 1/Milli.
Centi == 100
Milli == 1000
Baseline == 68
AdjMin == 920
AdjMax == 1100

\* floor(sqrt(n)) by bisection: lo * lo <= n < hi * hi (46340 is the largest
\* integer whose square is below 2^31)
RECURSIVE ISqrtBetween(_, _, _)
ISqrtBetween(n, lo, hi) ==
    IF hi - lo <= 1 THEN lo
    ELSE LET m == (lo + hi) \div 2
         IN  IF m * m <= n THEN ISqrtBetween(n, m, hi) ELSE ISqrtBetween(n, lo, m)
ISqrt(n) == ISqrtBetween(n, 0, Min(n, 46340) + 1)

\* math.sqrt(floor_area_sqm / baseline), in thousandths
SqrtRatio(area) == ISqrt((area * ((Milli * Milli) \div Centi)) \div Baseline)

\* size_adj without the clamp to [0.92, 1.10]
SizeAdjUnclamped(f) ==
    IF TruthyNum(f.floor_area_sqm) THEN SqrtRatio(Val(f.floor_area_sqm)) ELSE Milli

\* size_adj of estimate_value_from_comps, in thousandths
SizeAdj(f) ==
    IF TruthyNum(f.floor_area_sqm)
    THEN Max(AdjMin, Min(AdjMax, SqrtRatio(Val(f.floor_area_sqm))))
    ELSE Milli

\* int(q * size_adj) for q in quarters and size_adj in thousandths
Scale(q, adj) == (q * adj) \div (Quarter * Milli)

CompPrice(c) == c.price
Prices(cs) ==
    LET kept == SelectSeq(cs, LAMBDA c : c.price # 0)
    IN  [i \in 1..Len(kept) |-> CompPrice(kept[i])]

\* size_adj is the local factor the second note reports; the call returns
\* (low, mid, high, notes).
EstimateValueFromComps(f, cs) ==
    IF cs = <<>>
    THEN [low |-> Null, mid |-> Null, high |-> Null, size_adj |-> Null, notes |-> <<NoCompsNote>>]
    ELSE LET prices == Prices(cs)
             mid == Median(prices)
             q25 == Quantile(prices, 1)
             q75 == Quantile(prices, 3)
         IN  IF mid = Null \/ q25 = Null \/ q75 = Null
             THEN [low |-> Null, mid |-> Null, high |-> Null, size_adj |-> Null,
                   notes |-> <<InsufficientNote>>]
             ELSE LET size_adj == SizeAdj(f)
                  IN  [low |-> Some(Scale(Val(q25), size_adj)),
                       mid |-> Some(Scale(Val(mid), size_adj)),
                       high |-> Some(Scale(Val(q75), size_adj)),
                       size_adj |-> Some(size_adj),
                       notes |-> <<QuartilesNote>> \o
                                 (IF TruthyNum(f.floor_area_sqm) THEN <<SizeAdjNote>> ELSE <<>>)]

\* ------------------------------------------------ reasonableness scorer
ScoreUnavailableNote == "Score unavailable (missing asking price or fair-mid)."
DeviationNote == "Asking vs fair-mid deviation"

PriceMax == 40
DevSpan == 15
FloorAreaPoints == 10
CompPointsMax == 10
TenureFree == 15
TenureLease == 10
TenureNeutral == 8
EpcNeutral == 8
EpcAB == 15
EpcC == 12
EpcD == 9
EpcOther == 7
BehaviorComponent == 6
ScoreMax == 100

\* max(0, 40 - int((dev / 15.0) * 40)) with dev = abs(diff_pct or 0)
PriceComponent(diff_pct) ==
    LET num == IF diff_pct = Null THEN 0 ELSE Abs(Val(diff_pct).num)
        den == IF diff_pct = Null THEN 1 ELSE Abs(Val(diff_pct).den)
    IN  Max(0, PriceMax - ((num * PriceMax) \div (den * DevSpan)))

DataComponent(f, n) ==
    (IF TruthyNum(f.floor_area_sqm) THEN FloorAreaPoints ELSE 0) + Min(CompPointsMax, n)

TenureComponent(f) ==
    IF TruthyText(f.tenure)
    THEN IF StartsWith(Lower(Val(f.tenure)), <<"f","r","e","e">>) THEN TenureFree
         ELSE IF StartsWith(Lower(Val(f.tenure)), <<"l","e","a","s","e">>) THEN TenureLease
         ELSE TenureNeutral
    ELSE TenureNeutral

EpcComponent(f) ==
    IF TruthyText(f.epc_rating)
    THEN LET r == Upper(Strip(Val(f.epc_rating)))
         IN  IF r \in {<<"A">>, <<"B">>} THEN EpcAB
             ELSE IF r = <<"C">> THEN EpcC
             ELSE IF r = <<"D">> THEN EpcD
             ELSE EpcOther
    ELSE EpcNeutral

\* the thresholds taken as exclusive lower bounds
LabelOfExclusive(score) ==
    IF score > 80 THEN "Reasonably priced"
    ELSE IF score > 60 THEN "Slight premium / negotiate"
    ELSE IF score > 40 THEN "Overpriced unless there's hidden value"
    ELSE "Stretch pricing / proceed cautiously"

LabelOf(score) ==
    IF score >= 80 THEN "Reasonably priced"
    ELSE IF score >= 60 THEN "Slight premium / negotiate"
    ELSE IF score >= 40 THEN "Overpriced unless there's hidden value"
    ELSE "Stretch pricing / proceed cautiously"

\* raised: the exception the call ends with ("" when it returns)
ReasonablenessScore(f, fair_mid, n) ==
    IF f.price = Null \/ fair_mid = Null
    THEN [raised |-> "", score |-> Null, label |-> Null, price_component |-> Null,
          notes |-> <<ScoreUnavailableNote>>]
    ELSE LET diff_pct == Pct(f.price, fair_mid)
             price_component == PriceComponent(diff_pct)
             score == Max(0, Min(ScoreMax, price_component + DataComponent(f, n)
                                  + TenureComponent(f) + EpcComponent(f) + BehaviorComponent))
         IN  IF diff_pct = Null
             THEN \* f"{diff_pct:+.1f}" on None
                  [raised |-> "TypeError", score |-> Null, label |-> Null,
                   price_component |-> Null, notes |-> <<>>]
             ELSE [raised |-> "", score |-> Some(score), label |-> Some(LabelOf(score)),
                   price_component |-> Some(price_component), notes |-> <<DeviationNote>>]

\* ----------------------------------------------------- offer strategist
OfferUnavailableNote == "Offer strategy unavailable (missing asking price or fair-mid)."
OfferAnchorNote == "Offer anchor set near 95% of fair-mid (rounded to nearest 1k)."

Percent == 100
AnchorPct == 95
FloorPct == 98
BandLowPct == 98
BandHighPct == 102
RoundBase == 1000

\* int(x * p / 100) for x >= 0
IntPct(x, p) == (x * p) \div Percent

\* the anchor without the floor from fair_low
RawAnchorNoFloor(fair_low, fair_mid) == IntPct(Val(fair_mid), AnchorPct)

\* anchor before rounding
RawAnchor(fair_low, fair_mid) ==
    IF fair_low # Null
    THEN Max(IntPct(Val(fair_mid), AnchorPct), IntPct(Val(fair_low), FloorPct))
    ELSE IntPct(Val(fair_mid), AnchorPct)

\* the band's lower end taken 2% above the anchor
BandLowAbove(anchor) == IntPct(anchor, BandHighPct)

BandLow(anchor) == IntPct(anchor, BandLowPct)
BandHigh(anchor) == IntPct(anchor, BandHighPct)

OfferStrategy(f, fair_low, fair_mid) ==
    IF f.price = Null \/ fair_mid = Null
    THEN [anchor |-> Null, band_low |-> Null, band_high |-> Null, notes |-> <<OfferUnavailableNote>>]
    ELSE LET anchor == RawAnchor(fair_low, fair_mid)
         IN  [anchor |-> Some(RoundToNearest(anchor, RoundBase)),
              band_low |-> Some(RoundToNearest(BandLow(anchor), RoundBase)),
              band_high |-> Some(RoundToNearest(BandHigh(anchor), RoundBase)),
              notes |-> <<OfferAnchorNote>>]

\* ----------------------------------------------------- report composer
\* Rendered text: a literal is <<"text", t>>; a formatted value x is Some(x).
NoneText == <<"text", "None">>
EmDash == <<"text", "em-dash">>
NoneFound == <<"text", "- None found.">>

\* str() of a value inside an f-string
PyFormat(o) == IF o = Null THEN NoneText ELSE o
\* dict.get(key, default)
Get(d, key, default) == IF key \in DOMAIN d THEN d[key] ELSE default
\* x or default
OrNum(o, default) == IF TruthyNum(o) THEN o ELSE default
OrText(o, default) == IF TruthyText(o) THEN o ELSE default

RenderMarkdown(f, cs, v) ==
    [asking_price |-> IF TruthyNum(f.price) THEN f.price ELSE EmDash,
     address |-> PyFormat(OrText(f.address, EmDash)),
     postcode |-> PyFormat(OrText(f.postcode, EmDash)),
     property_type |-> PyFormat(OrText(f.property_type, EmDash)),
     tenure |-> PyFormat(OrText(f.tenure, EmDash)),
     bedrooms |-> PyFormat(OrNum(f.bedrooms, EmDash)),
     bathrooms |-> PyFormat(OrNum(f.bathrooms, EmDash)),
     size |-> IF TruthyNum(f.floor_area_sqm) THEN f.floor_area_sqm ELSE EmDash,
     epc |-> PyFormat(OrText(f.epc_rating, EmDash)),
     comps |-> IF cs = <<>> THEN NoneFound ELSE Some(cs),
     fair_value_range |-> PyFormat(Get(v, "fair_value_range", EmDash)),
     asking_vs_mid |-> PyFormat(Get(v, "asking_vs_mid", EmDash)),
     score |-> PyFormat(Get(v, "score", EmDash)),
     label |-> PyFormat(Get(v, "label", EmDash)),
     offer_anchor |-> PyFormat(Get(v, "offer_anchor", EmDash)),
     offer_band |-> PyFormat(Get(v, "offer_band", EmDash))]

\* ------------------------------------------------------ run_propertyedge
\* f"{x:+.1f}": the signed number of tenths nearest the ratio
FormatPct(p) ==
    LET tenths == RoundHalfEven(Abs(p.num) * 10, Abs(p.den))
    IN  IF (p.num < 0) = (p.den < 0) THEN tenths ELSE -tenths

BuildValuation(f, cs, est, sc, off) ==
    LET asking_vs_mid == IF TruthyNum(f.price) /\ TruthyNum(est.mid)
                         THEN Pct(f.price, est.mid) ELSE Null
    IN  [fair_value_low |-> IF TruthyNum(est.low)
                            THEN Some(RoundToNearest(Val(est.low), RoundBase)) ELSE Null,
         fair_value_mid |-> IF TruthyNum(est.mid)
                            THEN Some(RoundToNearest(Val(est.mid), RoundBase)) ELSE Null,
         fair_value_high |-> IF TruthyNum(est.high)
                             THEN Some(RoundToNearest(Val(est.high), RoundBase)) ELSE Null,
         fair_value_range |-> IF TruthyNum(est.low) /\ TruthyNum(est.mid) /\ TruthyNum(est.high)
                              THEN Some(<<RoundToNearest(Val(est.low), RoundBase),
                                          RoundToNearest(Val(est.mid), RoundBase),
                                          RoundToNearest(Val(est.high), RoundBase)>>)
                              ELSE Null,
         asking_vs_mid |-> IF asking_vs_mid # Null THEN Some(FormatPct(Val(asking_vs_mid))) ELSE Null,
         asking_vs_mid_pct |-> asking_vs_mid,
         score |-> sc.score,
         label |-> sc.label,
         offer_anchor |-> IF TruthyNum(off.anchor) THEN off.anchor ELSE Null,
         offer_band |-> IF TruthyNum(off.band_low) /\ TruthyNum(off.band_high)
                        THEN Some(<<Val(off.band_low), Val(off.band_high)>>) ELSE Null,
         notes |-> est.notes \o sc.notes \o off.notes,
         comps_used |-> Len(cs)]

\* ------------------------------------------------------------- inputs
\* The inputs are listed in the order they are tried.
Text(str) == Some(str)
AskingPrices == <<Some(100000), Null, Some(0)>>
FloorAreas == <<Some(6800), Null, Some(5000), Some(7497), Some(10000), Some(0)>>
Tenures == <<Text(<<"F","r","e","e","h","o","l","d">>), Null>>
EpcRatings == <<Text(<<"C">>), Null>>
NoOtherFacts == [address |-> Null, postcode |-> Null, property_type |-> Null,
                 bedrooms |-> Null, bathrooms |-> Null]
OtherFacts == <<[address |-> Text(<<"1"," ","H","i","g","h"," ","S","t">>),
                 postcode |-> Text(<<"S","W","1","A"," ","1","A","A">>),
                 property_type |-> Text(<<"F","l","a","t">>),
                 bedrooms |-> Some(2), bathrooms |-> Some(0)],
                NoOtherFacts>>

MakeFacts(price, area, tenure, epc, other) ==
    [price |-> price, floor_area_sqm |-> area, tenure |-> tenure, epc_rating |-> epc,
     address |-> other.address, postcode |-> other.postcode,
     property_type |-> other.property_type,
     bedrooms |-> other.bedrooms, bathrooms |-> other.bathrooms]

CompPrices == {1, 400, 100400, 320000}
CompInputs == [price : CompPrices]
CompLists == UNION {[1..n -> CompInputs] : n \in 0..MaxComps}

NoFacts == MakeFacts(Null, Null, Null, Null, NoOtherFacts)
NoFair == [low |-> Null, mid |-> Null, high |-> Null, size_adj |-> Null, notes |-> <<>>]
NoScore == [raised |-> "", score |-> Null, label |-> Null, price_component |-> Null, notes |-> <<>>]
NoOffer == [anchor |-> Null, band_low |-> Null, band_high |-> Null, notes |-> <<>>]

\* Nothing is held by the databases and no call is under way.
IdleComps == ppd_sales = {} /\ request = Null
IdleStorage == analyses = Null /\ sqlite_sequence = 0 /\ saved = <<>> /\ got = Null
IdleStats == stat_args = Null /\ stat = Null

\* ------------------------------------------------------------ actions
Init ==
    /\ pc = "start"
    /\ facts = NoFacts
    /\ comps = <<>>
    /\ comps_used = 0
    /\ fair = NoFair
    /\ scored = NoScore
    /\ offer = NoOffer
    /\ valuation = Null
    /\ md_report = Null
    /\ error = ""
    /\ IdleComps /\ IdleStorage /\ IdleStats

\* facts = parse_listing(url)
ParseListing ==
    /\ pc = "start"
    /\ \E p \in DOMAIN AskingPrices, a \in DOMAIN FloorAreas, t \in DOMAIN Tenures,
          e \in DOMAIN EpcRatings, o \in DOMAIN OtherFacts :
          facts' = MakeFacts(AskingPrices[p], FloorAreas[a], Tenures[t], EpcRatings[e],
                             OtherFacts[o])
    /\ pc' = "comps"
    /\ UNCHANGED <<comps, comps_used, fair, scored, offer, valuation, md_report, error>>
    /\ UNCHANGED <<compsVars, storageVars, statVars>>

\* comps = [] unless ppd_sqlite_path, then find_comps_sqlite(...)
FindComps ==
    /\ pc = "comps"
    /\ \E ppd_sqlite_path \in BOOLEAN :
          IF ppd_sqlite_path
          THEN \E cs \in CompLists : comps' = cs /\ comps_used' = Len(cs)
          ELSE comps' = <<>> /\ comps_used' = 0
    /\ pc' = "estimate"
    /\ UNCHANGED <<facts, fair, scored, offer, valuation, md_report, error>>
    /\ UNCHANGED <<compsVars, storageVars, statVars>>

Estimate ==
    /\ pc = "estimate"
    /\ fair' = EstimateValueFromComps(facts, comps)
    /\ pc' = "score"
    /\ UNCHANGED <<facts, comps, comps_used, scored, offer, valuation, md_report, error>>
    /\ UNCHANGED <<compsVars, storageVars, statVars>>

Score ==
    /\ pc = "score"
    /\ scored' = ReasonablenessScore(facts, fair.mid, comps_used)
    /\ error' = scored'.raised
    /\ pc' = IF scored'.raised # "" THEN "raised" ELSE "offer"
    /\ UNCHANGED <<facts, comps, comps_used, fair, offer, valuation, md_report>>
    /\ UNCHANGED <<compsVars, storageVars, statVars>>

Offer ==
    /\ pc = "offer"
    /\ offer' = OfferStrategy(facts, fair.low, fair.mid)
    /\ pc' = "valuation"
    /\ UNCHANGED <<facts, comps, comps_used, fair, scored, valuation, md_report, error>>
    /\ UNCHANGED <<compsVars, storageVars, statVars>>

Valuation ==
    /\ pc = "valuation"
    /\ valuation' = Some(BuildValuation(facts, comps, fair, scored, offer))
    /\ pc' = "render"
    /\ UNCHANGED <<facts, comps, comps_used, fair, scored, offer, md_report, error>>
    /\ UNCHANGED <<compsVars, storageVars, statVars>>

Render ==
    /\ pc = "render"
    /\ md_report' = Some(RenderMarkdown(facts, comps, Val(valuation)))
    /\ pc' = "done"
    /\ UNCHANGED <<facts, comps, comps_used, fair, scored, offer, valuation, error>>
    /\ UNCHANGED <<compsVars, storageVars, statVars>>

Next == ParseListing \/ FindComps \/ Estimate \/ Score \/ Offer \/ Valuation \/ Render

Spec == Init /\ [][Next]_vars

\* --------------------------------- the stages called on their own inputs
ScoreAskingPrices == <<Some(100000), Some(101000), Some(104000), Some(107500),
                       Some(115000), Some(330000), Null, Some(0)>>
ScoreFairMids == <<Some(100000), Null, Some(1), Some(0)>>
ScoreFloorAreas == <<Some(7497), Null, Some(0)>>
ScoreTenures == <<Text(<<"F","r","e","e","h","o","l","d">>),
                  Text(<<"F","R","E","E">>),
                  Text(<<"l","e","a","s","e","h","o","l","d">>),
                  Text(<<"S","h","a","r","e"," ","o","f"," ","f","r","e","e","h","o","l","d">>),
                  Text(<<"f","r","e">>),
                  Text(<<>>), Null>>
ScoreEpcRatings == <<Text(<<"A">>), Text(<<"b">>), Text(<<" ","C">>), Text(<<"D">>),
                     Text(<<"G">>), Text(<<"A","+">>), Null>>

InitScore ==
    /\ pc = "score"
    /\ \E p \in DOMAIN ScoreAskingPrices, a \in DOMAIN ScoreFloorAreas,
          t \in DOMAIN ScoreTenures, e \in DOMAIN ScoreEpcRatings :
          facts = MakeFacts(ScoreAskingPrices[p], ScoreFloorAreas[a], ScoreTenures[t],
                            ScoreEpcRatings[e], NoOtherFacts)
    /\ comps = <<>>
    /\ comps_used \in 0..MaxCompsUsed
    /\ \E m \in DOMAIN ScoreFairMids : fair = [NoFair EXCEPT !.mid = ScoreFairMids[m]]
    /\ scored = NoScore
    /\ offer = NoOffer
    /\ valuation = Null
    /\ md_report = Null
    /\ error = ""
    /\ IdleComps /\ IdleStorage /\ IdleStats

NextScore == Score

SpecScore == InitScore /\ [][NextScore]_vars

OfferAskingPrices == <<Some(100000), Null, Some(0)>>
OfferFairValues == <<Some(100400), Some(105000), Some(320000), Some(2500), Some(1500),
                     Some(526), Some(400), Some(1), Some(0), Null>>

InitOffer ==
    /\ pc = "offer"
    /\ \E p \in DOMAIN OfferAskingPrices :
          facts = MakeFacts(OfferAskingPrices[p], Null, Null, Null, NoOtherFacts)
    /\ comps = <<>>
    /\ comps_used = 0
    /\ \E lo \in DOMAIN OfferFairValues, mi \in DOMAIN OfferFairValues :
          fair = [NoFair EXCEPT !.low = OfferFairValues[lo], !.mid = OfferFairValues[mi]]
    /\ scored = NoScore
    /\ offer = NoOffer
    /\ valuation = Null
    /\ md_report = Null
    /\ error = ""
    /\ IdleComps /\ IdleStorage /\ IdleStats

NextOffer == Offer

SpecOffer == InitOffer /\ [][NextOffer]_vars

\* ============================== comp selection (src/ppd_sqlite.py)
Digits == <<"0","1","2","3","4","5","6","7","8","9">>
IsDigit(c) == \E i \in DOMAIN Digits : Digits[i] = c
IsUpperLetter(c) == \E i \in DOMAIN UpperLetters : UpperLetters[i] = c

\* "sub in s" on text
In(sub, s) == \E i \in 1..(Len(s) - Len(sub) + 1) : SubSeq(s, i, i + Len(sub) - 1) = sub

\* s.split(" ")[0]
RECURSIVE FirstField(_)
FirstField(s) ==
    IF s = <<>> \/ Head(s) = " " THEN <<>> ELSE <<Head(s)>> \o FirstField(Tail(s))

\* group 1 of the pattern: [A-Z]{1,2}\d[A-Z\d]?
IsOutward(s) ==
    \E a \in 1..2 :
        /\ Len(s) \in {a + 1, a + 2}
        /\ \A i \in 1..a : IsUpperLetter(s[i])
        /\ IsDigit(s[a + 1])
        /\ Len(s) = a + 2 => IsUpperLetter(s[a + 2]) \/ IsDigit(s[a + 2])
\* group 2 of the pattern: \d[A-Z]{2}
IsInward(s) == Len(s) = 3 /\ IsDigit(s[1]) /\ IsUpperLetter(s[2]) /\ IsUpperLetter(s[3])

\* The anchored pattern ^(outward)\s*(inward)$ has at most one match: the
\* inward group is the last three characters and the outward group, which
\* holds no blank, is what precedes them less the blanks in between.
InwardOf(p) == SubSeq(p, Len(p) - 2, Len(p))
OutwardOf(p) == RStrip(SubSeq(p, 1, Len(p) - 3))
ReMatch(p) == Len(p) >= 3 /\ IsInward(InwardOf(p)) /\ IsOutward(OutwardOf(p))

\* postcode_sector(pc), pc an optional text
PostcodeSector(postcode) ==
    LET p == IF TruthyText(postcode) THEN Upper(Strip(Val(postcode))) ELSE <<>>
    IN  IF ~ReMatch(p) THEN FirstField(p)
        ELSE OutwardOf(p) \o <<" ">> \o <<InwardOf(p)[1]>>

\* looks_like_flat(property_type)
LooksLikeFlat(property_type) ==
    LET t == IF TruthyText(property_type) THEN Lower(Val(property_type)) ELSE <<>>
    IN  In(<<"f","l","a","t">>, t) \/ In(<<"a","p","a","r","t","m","e","n","t">>, t)

\* A sale date is held as its day number: ISO dates of one format compare as
\* text in the order of the days.
DaysPerMonth == 30
Cutoff(today, months) == today - DaysPerMonth * months

\* WHERE UPPER(postcode) LIKE sector || '%' AND date >= cutoff [AND ptype = 'F']
Where(table, like, cutoff, ptype_filter) ==
    {r \in table : /\ StartsWith(Upper(r.postcode), like)
                   /\ r.date >= cutoff
                   /\ ptype_filter # Null => r.ptype = Val(ptype_filter)}

\* ORDER BY date DESC: every arrangement of the rows with the dates descending
\* (the order of rows of one date is the database's choice)
OrderByDateDesc(rows) ==
    {s \in [1..Cardinality(rows) -> rows] :
        /\ \A i, j \in DOMAIN s : i # j => s[i] # s[j]
        /\ \A i, j \in DOMAIN s : i < j => s[i].date >= s[j].date}

\* LIMIT n (a negative n is no limit)
Limit(s, n) == IF n < 0 THEN s ELSE SubSeq(s, 1, Min(n, Len(s)))

\* Comp(price, date, postcode, property_type, street, town) of a row
CompOfRow(r) ==
    [price |-> r.price, date |-> r.date, postcode |-> r.postcode,
     property_type |-> r.ptype, street |-> r.street, town |-> r.town]

\* The lists find_comps_sqlite(path, postcode, property_type, months, limit)
\* can return on the table, the clock reading today.
FindCompsSqlite(table, postcode, property_type, months, limit, today) ==
    IF ~TruthyText(postcode) THEN {<<>>}
    ELSE LET sector == PostcodeSector(postcode)
             cutoff == Cutoff(today, months)
             ptype_filter == IF LooksLikeFlat(property_type) THEN Some("F") ELSE Null
             rows == Where(table, sector, cutoff, ptype_filter)
         IN  {[i \in DOMAIN Limit(s, limit) |-> CompOfRow(s[i])] : s \in OrderByDateDesc(rows)}

\* ------------------------------------------- inputs of find_comps_sqlite
MaxSales == 3
Today == 600
SubjectPostcodes == <<Text(<<"E","1"," ","1","A","A">>), Text(<<"E","1">>), Text(<<" ","e","1"," ","1","a","a">>), Text(<<"E","1","1","A","A">>),
                      Text(<<>>), Null>>
SubjectTypes == <<Text(<<"F","l","a","t">>), Text(<<"T","e","r","r","a","c","e","d"," ","h","o","u","s","e">>), Text(<<"A","P","A","R","T","M","E","N","T">>), Null>>
MonthsInputs == <<18, 1>>
LimitInputs == <<12, 1, 0>>
SalePostcodes == <<<<"E","1"," ","1","A","B">>, <<"E","1"," ","2","A","B">>, <<"E","1","0"," ","1","A","B">>>>
\* a recent flat, a house sold the same day, a house sold on the 18-month
\* cutoff day and a flat sold the day before it
SaleKinds == <<[ptype |-> "F", date |-> 590, price |-> 250000],
               [ptype |-> "T", date |-> 590, price |-> 300000],
               [ptype |-> "T", date |-> 60, price |-> 280000],
               [ptype |-> "F", date |-> 59, price |-> 240000]>>
SaleInputs ==
    {[price |-> SaleKinds[k].price + 1000 * p, date |-> SaleKinds[k].date,
      postcode |-> SalePostcodes[p], ptype |-> SaleKinds[k].ptype,
      street |-> Null, town |-> Null] : p \in DOMAIN SalePostcodes, k \in DOMAIN SaleKinds}
SalesTables == {t \in SUBSET SaleInputs : Cardinality(t) <= MaxSales}

IdleEngine ==
    /\ comps_used = 0
    /\ fair = NoFair
    /\ scored = NoScore
    /\ offer = NoOffer
    /\ valuation = Null
    /\ md_report = Null
    /\ error = ""

InitComps ==
    /\ pc = "find_comps"
    /\ \E s \in DOMAIN SubjectPostcodes, t \in DOMAIN SubjectTypes :
          facts = [NoFacts EXCEPT !.postcode = SubjectPostcodes[s],
                                  !.property_type = SubjectTypes[t]]
    /\ comps = <<>>
    /\ ppd_sales \in SalesTables
    /\ \E m \in DOMAIN MonthsInputs, l \in DOMAIN LimitInputs :
          request = Some([months |-> MonthsInputs[m], limit |-> LimitInputs[l], today |-> Today])
    /\ IdleEngine /\ IdleStorage /\ IdleStats

\* comps = find_comps_sqlite(path, facts.postcode, facts.property_type, months, limit)
FindCompsCall ==
    /\ pc = "find_comps"
    /\ comps' \in FindCompsSqlite(ppd_sales, facts.postcode, facts.property_type,
                                  Val(request).months, Val(request).limit, Val(request).today)
    /\ pc' = "found"
    /\ UNCHANGED <<facts, comps_used, fair, scored, offer, valuation, md_report, error>>
    /\ UNCHANGED <<compsVars, storageVars, statVars>>

NextComps == FindCompsCall

SpecComps == InitComps /\ [][NextComps]_vars

\* ================================== persistence (src/storage.py)
\* Python values that pass through json: a value is its type and its payload.
\* A float is held in tenths; a dict is the sequence of its <<key, value>>
\* items in insertion order.
PyNone == [py |-> "None", v |-> <<>>]
PyInt(n) == [py |-> "int", v |-> <<n>>]
PyFloat(tenths) == [py |-> "float", v |-> <<tenths>>]
PyStr(s) == [py |-> "str", v |-> <<s>>]
PyList(items) == [py |-> "list", v |-> items]
PyDict(items) == [py |-> "dict", v |-> items]

\* bool(x)
PyTruthy(x) ==
    CASE x.py = "None" -> FALSE
      [] x.py \in {"int", "float"} -> x.v # <<0>>
      [] x.py = "str" -> x.v # <<"">>
      [] OTHER -> x.v # <<>>
\* x or default
PyOr(x, default) == IF PyTruthy(x) THEN x ELSE default

\* d.get(key)
DictGet(d, key) ==
    IF \E i \in DOMAIN d.v : d.v[i][1] = key
    THEN d.v[CHOOSE i \in DOMAIN d.v : d.v[i][1] = key][2]
    ELSE PyNone

\* A JSON text is held as the value it denotes: null, a number with the
\* lexeme's kind (with or without a fraction), a string, an array, an object.
\* json.dumps(x)
RECURSIVE JsonDumps(_)
JsonDumps(x) ==
    CASE x.py = "None" -> [json |-> "null", v |-> <<>>]
      [] x.py = "int" -> [json |-> "number", v |-> <<"integer", x.v[1]>>]
      [] x.py = "float" -> [json |-> "number", v |-> <<"fraction", x.v[1]>>]
      [] x.py = "str" -> [json |-> "string", v |-> x.v]
      [] x.py \in {"list", "tuple"} ->
            [json |-> "array", v |-> [i \in DOMAIN x.v |-> JsonDumps(x.v[i])]]
      [] x.py = "dict" ->
            [json |-> "object", v |-> [i \in DOMAIN x.v |-> <<x.v[i][1], JsonDumps(x.v[i][2])>>]]
\* json.loads(text)
RECURSIVE JsonLoads(_)
JsonLoads(j) ==
    CASE j.json = "null" -> PyNone
      [] j.json = "number" -> IF j.v[1] = "integer" THEN PyInt(j.v[2]) ELSE PyFloat(j.v[2])
      [] j.json = "string" -> [py |-> "str", v |-> j.v]
      [] j.json = "array" -> PyList([i \in DOMAIN j.v |-> JsonLoads(j.v[i])])
      [] j.json = "object" -> PyDict([i \in DOMAIN j.v |-> <<j.v[i][1], JsonLoads(j.v[i][2])>>])

\* json.loads(column or default): a NULL column reads as the default text
LoadsOr(column, default) == JsonLoads(IF column = Null THEN JsonDumps(default) ELSE Val(column))

\* AUTOINCREMENT: one more than the largest rowid ever used
NextId(seq) == seq + 1

\* NOT NULL columns of the analyses table
NotNullViolated(row) == row.created_at_utc = PyNone \/ row.url = PyNone

\* the row save_analysis(db_path, result) inserts
RowOf(id, result) ==
    LET facts_ == PyOr(result.facts, PyDict(<<>>))
        valuation_ == PyOr(result.valuation, PyDict(<<>>))
        comps_ == PyOr(result.comps, PyList(<<>>))
    IN  [id |-> id,
         created_at_utc |-> result.created_at_utc,
         url |-> DictGet(facts_, "url"),
         property_id |-> DictGet(facts_, "property_id"),
         facts_json |-> Some(JsonDumps(facts_)),
         comps_json |-> Some(JsonDumps(comps_)),
         valuation_json |-> Some(JsonDumps(valuation_)),
         md_report |-> PyOr(result.md_report, PyStr(""))]

\* the latest row, whatever the identifier asked for
SelectLatest(rows, analysis_id) == IF rows = <<>> THEN <<>> ELSE <<rows[Len(rows)]>>
\* SELECT * FROM analyses WHERE id = ? (fetchone: first row or none)
SelectById(rows, analysis_id) ==
    IF \E i \in DOMAIN rows : rows[i].id = analysis_id
    THEN <<rows[CHOOSE i \in DOMAIN rows : rows[i].id = analysis_id]>>
    ELSE <<>>

\* get_analysis(db_path, analysis_id) on the rows of the table
GetAnalysisOf(rows, analysis_id) ==
    LET r == SelectById(rows, analysis_id)
    IN  IF r = <<>> THEN Null
        ELSE Some([id |-> r[1].id,
                   created_at_utc |-> r[1].created_at_utc,
                   url |-> r[1].url,
                   property_id |-> r[1].property_id,
                   facts |-> LoadsOr(r[1].facts_json, PyDict(<<>>)),
                   comps |-> LoadsOr(r[1].comps_json, PyList(<<>>)),
                   valuation |-> LoadsOr(r[1].valuation_json, PyDict(<<>>)),
                   md_report |-> PyOr(r[1].md_report, PyStr(""))])

\* ------------------------------------------------- inputs of save_analysis
MaxSaves == 3
FactsWith(url, property_id, price, area) ==
    PyDict(<<<<"url", PyStr(url)>>, <<"property_id", PyStr(property_id)>>,
             <<"price", price>>, <<"floor_area_sqm", area>>,
             <<"key_features", PyList(<<PyStr("Garden")>>)>>>>)
ValuationWith(mid, pct_, label, notes, n_comps) ==
    PyDict(<<<<"fair_value_mid", mid>>, <<"asking_vs_mid_pct", pct_>>, <<"label", label>>,
             <<"notes", PyList(notes)>>, <<"comps_used", PyInt(n_comps)>>>>)
CompDict(price, date) ==
    PyDict(<<<<"price", PyInt(price)>>, <<"date", PyStr(date)>>,
             <<"postcode", PyStr("E1 1AB")>>, <<"property_type", PyStr("F")>>,
             <<"street", PyNone>>, <<"town", PyNone>>>>)
\* results as run_propertyedge builds them: with comps, and with none
ResultInputs ==
    <<[created_at_utc |-> PyStr("2026-01-01T10:00:00Z"),
       facts |-> FactsWith("https://www.rightmove.co.uk/properties/1", "1",
                           PyInt(350000), PyFloat(700)),
       comps |-> PyList(<<CompDict(320000, "2025-06-01"), CompDict(300000, "2025-05-01")>>),
       valuation |-> ValuationWith(PyInt(325000), PyFloat(77), PyStr("Fair"),
                                   <<PyStr("Size adjustment applied")>>, 2),
       md_report |-> PyStr("# PropertyEdge report 1")],
      [created_at_utc |-> PyStr("2026-01-02T11:30:00Z"),
       facts |-> FactsWith("https://www.rightmove.co.uk/properties/2", "2", PyNone, PyNone),
       comps |-> PyList(<<>>),
       valuation |-> ValuationWith(PyNone, PyNone, PyNone,
                                   <<PyStr("No sold comps found"), PyStr("Score unavailable")>>, 0),
       md_report |-> PyStr("# PropertyEdge report 2")],
      [created_at_utc |-> PyStr("2026-01-03T09:15:00Z"),
       facts |-> FactsWith("https://www.rightmove.co.uk/properties/1", "1",
                           PyInt(0), PyFloat(0)),
       comps |-> PyList(<<CompDict(1, "2025-06-01")>>),
       valuation |-> ValuationWith(PyNone, PyNone, PyNone, <<>>, 1),
       md_report |-> PyStr("# PropertyEdge report 3")]>>

InitStorage ==
    /\ pc = "storage"
    /\ facts = NoFacts
    /\ comps = <<>>
    /\ IdleEngine /\ IdleComps /\ IdleStorage /\ IdleStats

\* init_db(db_path): CREATE TABLE IF NOT EXISTS analyses
InitDb ==
    /\ pc = "storage"
    /\ analyses' = IF analyses = Null THEN Some(<<>>) ELSE analyses
    /\ UNCHANGED <<pc, facts, comps, comps_used, fair, scored, offer, valuation, md_report, error>>
    /\ UNCHANGED <<sqlite_sequence, saved, got, compsVars, statVars>>

\* new_id = save_analysis(db_path, result), on the initialised database
SaveAnalysis ==
    /\ pc = "storage"
    /\ analyses # Null
    /\ Len(saved) < MaxSaves
    /\ \E i \in DOMAIN ResultInputs :
          LET result == ResultInputs[i]
              new_id == NextId(sqlite_sequence)
              row == RowOf(new_id, result)
          IN  IF NotNullViolated(row)
              THEN /\ error' = "IntegrityError"
                   /\ UNCHANGED <<analyses, sqlite_sequence, saved>>
              ELSE /\ analyses' = Some(Append(Val(analyses), row))
                   /\ sqlite_sequence' = new_id
                   /\ saved' = Append(saved, [id |-> new_id, result |-> result])
                   /\ UNCHANGED error
    /\ UNCHANGED <<pc, facts, comps, comps_used, fair, scored, offer, valuation, md_report>>
    /\ UNCHANGED <<got, compsVars, statVars>>

\* row = get_analysis(db_path, analysis_id), on the initialised database
GetAnalysis ==
    /\ pc = "storage"
    /\ analyses # Null
    /\ \E analysis_id \in 0..(MaxSaves + 1) :
          got' = Some([id |-> analysis_id, calls |-> Len(saved),
                       row |-> GetAnalysisOf(Val(analyses), analysis_id)])
    /\ UNCHANGED <<pc, facts, comps, comps_used, fair, scored, offer, valuation, md_report, error>>
    /\ UNCHANGED <<analyses, sqlite_sequence, saved, compsVars, statVars>>

NextStorage == InitDb \/ SaveAnalysis \/ GetAnalysis

SpecStorage == InitStorage /\ [][NextStorage]_vars

\* ================ the statistics utilities called on their own inputs
MaxVals == 4
StatValues == <<10, 20, 30, 40, 35>>
StatLists == UNION {[1..n -> {StatValues[i] : i \in DOMAIN StatValues}] : n \in 0..MaxVals}
NotCalled == [quantile |-> Null, median |-> Null]

InitStats ==
    /\ pc = "stats"
    /\ facts = NoFacts
    /\ comps = <<>>
    /\ \E vals \in StatLists, qn \in 0..Quarter : stat_args = Some([vals |-> vals, qn |-> qn])
    /\ stat = NotCalled
    /\ IdleEngine /\ IdleComps /\ IdleStorage

\* quantile(vals, q), q = qn / 4
QuantileCall ==
    /\ pc = "stats"
    /\ stat.quantile = Null
    /\ stat' = [stat EXCEPT !.quantile = Some(Quantile(Val(stat_args).vals, Val(stat_args).qn))]
    /\ UNCHANGED <<pc, facts, comps, comps_used, fair, scored, offer, valuation, md_report, error>>
    /\ UNCHANGED <<stat_args, compsVars, storageVars>>

\* median(vals)
MedianCall ==
    /\ pc = "stats"
    /\ stat.median = Null
    /\ stat' = [stat EXCEPT !.median = Some(Median(Val(stat_args).vals))]
    /\ UNCHANGED <<pc, facts, comps, comps_used, fair, scored, offer, valuation, md_report, error>>
    /\ UNCHANGED <<stat_args, compsVars, storageVars>>

NextStats == QuantileCall \/ MedianCall

SpecStats == InitStats /\ [][NextStats]_vars

\* ============================================================== claims
Contains(notes, note) == \E i \in 1..Len(notes) : notes[i] = note

Estimated == pc \in {"score", "raised", "offer", "valuation", "render", "done"}
Scored == pc \in {"raised", "offer", "valuation", "render", "done"}
Offered == pc \in {"valuation", "render", "done"}
Valued == pc \in {"render", "done"}

\* C1: for every facts record and every list of positive comp prices, the three
\* stages never raise; a stage whose upstream number is missing returns null
\* outputs plus a note; a zero denominator in pct is "no value", not an exception.
C1_NeverRaises ==
    /\ error = ""
    /\ pc # "raised"
    /\ Estimated /\ comps = <<>> =>
          /\ fair.low = Null /\ fair.mid = Null /\ fair.high = Null
          /\ Contains(fair.notes, NoCompsNote)
    /\ Scored /\ (facts.price = Null \/ fair.mid = Null) =>
          /\ scored.score = Null /\ scored.label = Null
          /\ Contains(scored.notes, ScoreUnavailableNote)
    /\ Offered /\ (facts.price = Null \/ fair.mid = Null) =>
          /\ offer.anchor = Null /\ offer.band_low = Null /\ offer.band_high = Null
          /\ Contains(offer.notes, OfferUnavailableNote)
    /\ Estimated /\ fair.mid = Some(0) => Pct(facts.price, fair.mid) = Null

\* C2: in the valuation record every optional field is null exactly when its
\* prerequisite is missing: the fair values iff the comp list is empty;
\* asking_vs_mid, offer_anchor and offer_band iff the asking price or the
\* fair-value mid is absent.
C2_NullIffPrerequisiteMissing ==
    Valued =>
        LET v == Val(valuation)
            absent == facts.price = Null \/ fair.mid = Null
        IN  /\ (v.fair_value_low = Null) <=> (comps = <<>>)
            /\ (v.fair_value_mid = Null) <=> (comps = <<>>)
            /\ (v.fair_value_high = Null) <=> (comps = <<>>)
            /\ (v.fair_value_range = Null) <=> (comps = <<>>)
            /\ (v.asking_vs_mid = Null) <=> absent
            /\ (v.offer_anchor = Null) <=> absent
            /\ (v.offer_band = Null) <=> absent

\* C3: reasonableness_score gives a null score (and label) iff the asking price
\* or fair_mid is null; a non-null score is an integer in 0..100.
C3_ScoreNullIffInputNull ==
    Scored =>
        /\ (scored.score = Null) <=> (facts.price = Null \/ fair.mid = Null)
        /\ (scored.label = Null) <=> (facts.price = Null \/ fair.mid = Null)
        /\ scored.score # Null => Val(scored.score) \in 0..ScoreMax

\* C4: for every non-empty list of positive comp prices the band satisfies
\* fair_low <= fair_mid <= fair_high, and so do the reported
\* fair_value_low/mid/high after rounding to the nearest 1000.
C4_BandOrdered ==
    /\ Estimated /\ comps # <<>> =>
          /\ fair.low # Null /\ fair.mid # Null /\ fair.high # Null
          /\ Val(fair.low) <= Val(fair.mid)
          /\ Val(fair.mid) <= Val(fair.high)
    /\ Valued /\ comps # <<>> =>
          LET v == Val(valuation)
          IN  /\ v.fair_value_low # Null /\ v.fair_value_mid # Null /\ v.fair_value_high # Null
              /\ Val(v.fair_value_low) <= Val(v.fair_value_mid)
              /\ Val(v.fair_value_mid) <= Val(v.fair_value_high)

C6_AnchorAtLeastFloor ==
    Offered /\ facts.price # Null /\ fair.mid # Null /\ fair.low # Null =>
        Val(offer.anchor) >= IntPct(Val(fair.low), FloorPct)

\* C6 (amended): the returned anchor is >= floor(fair_low * 0.98) rounded to the
\* nearest 1000, hence never more than 500 below floor(fair_low * 0.98).
C6_AnchorAtLeastRoundedFloor ==
    Offered /\ facts.price # Null /\ fair.mid # Null /\ fair.low # Null =>
        /\ Val(offer.anchor) >= RoundToNearest(IntPct(Val(fair.low), FloorPct), RoundBase)
        /\ 2 * (IntPct(Val(fair.low), FloorPct) - Val(offer.anchor)) <= RoundBase

C6_Witness ==
    /\ pc = "valuation"
    /\ facts.price # Null /\ fair.mid # Null /\ fair.low # Null
    /\ Val(offer.anchor) < IntPct(Val(fair.low), FloorPct)
    /\ Val(offer.anchor) = RoundToNearest(IntPct(Val(fair.low), FloorPct), RoundBase)

\* C7: whenever offer_strategy returns non-null outputs, the rounded values
\* satisfy band_low <= anchor <= band_high.
C7_BandAroundAnchor ==
    Offered /\ offer.anchor # Null =>
        /\ offer.band_low # Null /\ offer.band_high # Null
        /\ Val(offer.band_low) <= Val(offer.anchor)
        /\ Val(offer.anchor) <= Val(offer.band_high)

C7_Witness ==
    /\ pc = "valuation"
    /\ offer.anchor # Null
    /\ Val(offer.band_low) < Val(offer.anchor)
    /\ Val(offer.anchor) < Val(offer.band_high)

\* C8: render_markdown never fails and renders every null optional valuation
\* field and every null optional fact as the em-dash placeholder.
C8_NullRendersAsEmDash ==
    pc = "done" =>
        LET v == Val(valuation)
            r == Val(md_report)
        IN  /\ v.fair_value_range = Null => r.fair_value_range = EmDash
            /\ v.asking_vs_mid = Null => r.asking_vs_mid = EmDash
            /\ v.score = Null => r.score = EmDash
            /\ v.label = Null => r.label = EmDash
            /\ v.offer_anchor = Null => r.offer_anchor = EmDash
            /\ v.offer_band = Null => r.offer_band = EmDash
            /\ facts.price = Null => r.asking_price = EmDash
            /\ facts.address = Null => r.address = EmDash
            /\ facts.postcode = Null => r.postcode = EmDash
            /\ facts.property_type = Null => r.property_type = EmDash
            /\ facts.tenure = Null => r.tenure = EmDash
            /\ facts.bedrooms = Null => r.bedrooms = EmDash
            /\ facts.bathrooms = Null => r.bathrooms = EmDash
            /\ facts.floor_area_sqm = Null => r.size = EmDash
            /\ facts.epc_rating = Null => r.epc = EmDash

\* The components as claim C9 states them.
C9_P(price, mid) == Max(0, 40 - ((Abs(price - mid) * 100 * 40) \div (mid * 15)))
C9_D(area, n) == (IF area # Null THEN 10 ELSE 0) + (IF n < 10 THEN n ELSE 10)
C9_T(tenure) ==
    IF tenure = Null THEN 8
    ELSE IF StartsWith(Lower(Val(tenure)), <<"f","r","e","e">>) THEN 15
    ELSE IF StartsWith(Lower(Val(tenure)), <<"l","e","a","s","e">>) THEN 10
    ELSE 8
C9_E(epc) ==
    IF epc = Null THEN 8
    ELSE LET r == Upper(Strip(Val(epc)))
         IN  IF r = <<"A">> \/ r = <<"B">> THEN 15
             ELSE IF r = <<"C">> THEN 12
             ELSE IF r = <<"D">> THEN 9
             ELSE 7

\* C9: with asking price and fair_mid known and fair_mid non-zero, the score is
\* clamp(P + D + T + E + 6, 0, 100) with P from the deviation, D = (10 if the
\* floor area is known) + min(10, comps_used), T from the tenure, E from the EPC.
C9_ScoreIsSumOfComponents ==
    Scored /\ facts.price # Null /\ fair.mid # Null /\ fair.mid # Some(0) =>
        /\ scored.score # Null
        /\ Val(scored.score) =
              Max(0, Min(100, C9_P(Val(facts.price), Val(fair.mid))
                              + C9_D(facts.floor_area_sqm, comps_used)
                              + C9_T(facts.tenure) + C9_E(facts.epc_rating) + 6))

C11_Subject == IF facts.postcode = Null THEN <<>> ELSE Upper(Strip(Val(facts.postcode)))
C11_HasInward(p) ==
    /\ Len(p) >= 5
    /\ IsDigit(p[Len(p) - 2]) /\ IsUpperLetter(p[Len(p) - 1]) /\ IsUpperLetter(p[Len(p)])
C11_Outward(p) ==
    IF \E i \in DOMAIN p : p[i] = " "
    THEN SubSeq(p, 1, (CHOOSE i \in DOMAIN p : p[i] = " " /\ \A j \in 1..(i - 1) : p[j] # " ") - 1)
    ELSE IF C11_HasInward(p) THEN SubSeq(p, 1, Len(p) - 3) ELSE p
C11_SameSector(p, subject) ==
    /\ C11_Outward(Upper(p)) = C11_Outward(subject)
    /\ C11_HasInward(subject) => Upper(p)[Len(p) - 2] = subject[Len(subject) - 2]
C11_Recent(date) == date >= Val(request).today - DaysPerMonth * Val(request).months
C11_MentionsFlat ==
    /\ facts.property_type # Null
    /\ In(<<"f","l","a","t">>, Lower(Val(facts.property_type)))
          \/ In(<<"a","p","a","r","t","m","e","n","t">>, Lower(Val(facts.property_type)))
C11_Eligible ==
    {r \in ppd_sales : /\ C11_SameSector(r.postcode, C11_Subject)
                       /\ C11_Recent(r.date)
                       /\ C11_MentionsFlat => r.ptype = "F"}

\* C11: find_comps_sqlite returns at most `limit` comps, ordered by sale date
\* descending, each dated within the most recent `months` months, each in the
\* subject's postcode sector and never in a different sector or outward code,
\* narrowed to flats only when the subject's type mentions flat/apartment; and
\* no comps at all when the subject postcode is absent.
C11_CompsRecentInSectorOrdered ==
    pc = "found" =>
        /\ Len(comps) <= Val(request).limit
        /\ \A i, j \in DOMAIN comps : i < j => comps[i].date >= comps[j].date
        /\ \A i \in DOMAIN comps : C11_Recent(comps[i].date)
        /\ \A i \in DOMAIN comps : C11_SameSector(comps[i].postcode, C11_Subject)
        /\ C11_MentionsFlat => \A i \in DOMAIN comps : comps[i].property_type = "F"
        /\ C11_Subject # <<>> => Len(comps) = Min(Val(request).limit, Cardinality(C11_Eligible))
        /\ C11_Subject = <<>> => comps = <<>>

\* C12: after any sequence of save_analysis calls on an initialised database,
\* every call returned an identifier greater than (so distinct from) all
\* returned earlier; get_analysis with a returned identifier yields exactly
\* the facts, comps, valuation (notes included), creation timestamp and report
\* text passed to that save, whatever was saved later; get_analysis with an
\* identifier never returned yields None.
C12_SaveGetRoundTrip ==
    /\ \A i, j \in DOMAIN saved : i < j => saved[i].id < saved[j].id
    /\ got # Null =>
          LET g == Val(got)
          IN  IF \E i \in 1..g.calls : saved[i].id = g.id
              THEN LET passed == saved[CHOOSE i \in DOMAIN saved : saved[i].id = g.id].result
                   IN  /\ g.row # Null
                       /\ Val(g.row).facts = passed.facts
                       /\ Val(g.row).comps = passed.comps
                       /\ Val(g.row).valuation = passed.valuation
                       /\ DictGet(Val(g.row).valuation, "notes") = DictGet(passed.valuation, "notes")
                       /\ Val(g.row).created_at_utc = passed.created_at_utc
                       /\ Val(g.row).md_report = passed.md_report
              ELSE g.row = Null

\* an analysis is read back after two later saves, one of them of other facts
C12_Witness ==
    /\ Len(saved) = 3
    /\ got # Null /\ Val(got).calls = 3
    /\ saved[3].result.facts # saved[1].result.facts
    /\ got # Null /\ Val(got).id = saved[1].id /\ Val(got).row # Null
    /\ Val(Val(got).row).md_report = saved[1].result.md_report

\* C13 helpers: the k-th order statistic (k from 0) is the value with at most
\* k values below it and more than k values not above it; the interpolation
\* is taken in quarters at the rank (n - 1) * qn / 4.
C13_OrderStat(vals, k) ==
    CHOOSE v \in {vals[i] : i \in DOMAIN vals} :
        /\ Cardinality({i \in DOMAIN vals : vals[i] < v}) <= k
        /\ Cardinality({i \in DOMAIN vals : vals[i] <= v}) > k
C13_Interpolated(vals, qn) ==
    LET rank == (Len(vals) - 1) * qn
        floor == rank \div Quarter
        ceil == (rank + Quarter - 1) \div Quarter
        below == C13_OrderStat(vals, floor)
        above == C13_OrderStat(vals, ceil)
    IN  Quarter * below + (above - below) * (rank - Quarter * floor)

\* C13: quantile(values, q) for q in [0,1] is "no value" for an empty input,
\* the sole element for a single-element input, and otherwise the linear
\* interpolation between the order statistics at floor and ceil of the rank
\* (n-1)*q, so quantile([10,20,30,40],0.25) = 17.5 and
\* quantile([10,20,30,40],0.75) = 32.5; for every non-empty input
\* quantile(values,0.25) <= median(values) <= quantile(values,0.75) and
\* median(values) = quantile(values,0.5).
C13_QuantileInterpolates ==
    stat_args # Null =>
        LET vals == Val(stat_args).vals
            qn == Val(stat_args).qn
        IN  /\ stat.quantile # Null =>
                  /\ vals = <<>> => Val(stat.quantile) = Null
                  /\ Len(vals) = 1 => Val(stat.quantile) = Some(Quarter * vals[1])
                  /\ Len(vals) > 1 => Val(stat.quantile) = Some(C13_Interpolated(vals, qn))
                  /\ vals = <<10, 20, 30, 40>> /\ qn = 1 => Val(stat.quantile) = Some(70)
                  /\ vals = <<10, 20, 30, 40>> /\ qn = 3 => Val(stat.quantile) = Some(130)
            /\ stat.median # Null /\ vals # <<>> =>
                  /\ Val(stat.median) # Null
                  /\ Val(Quantile(vals, 1)) <= Val(Val(stat.median))
                  /\ Val(Val(stat.median)) <= Val(Quantile(vals, 3))
                  /\ Val(stat.median) = Quantile(vals, 2)

\* the lower quartile 17.5 and the median 25 of the unsorted 40, 10, 30, 20
C13_Witness ==
    /\ stat_args = Some([vals |-> <<40, 10, 30, 20>>, qn |-> 1])
    /\ stat.quantile = Some(Some(70))
    /\ stat.median = Some(Some(100))


====
